---- MODULE Spec2Model ----
(***************************************************************************)
(* Model of the constraint-propagation Sudoku solver in src/src/main.rs:   *)
(* the Gameboard (grid), the Candidates bitmasks, the seven rules and the  *)
(* propagation loop of main.                                               *)
(*                                                                         *)
(* The grid and the candidate set are functions indexed as in the source,  *)
(* state[x][y] and cells[x][y], with x in 0..X-1 and y in 0..Y-1.          *)
(***************************************************************************)
EXTENDS Integers, Sequences, FiniteSets, TLC

VARIABLES
    given,         \* the literal grid main starts from (never written again)
    gameboard,     \* Gameboard.state
    candidates,    \* Candidates.cells
    order,         \* the sequence of rule visits making up one pass of the loop
    pc,            \* position in the pass: 1..7 a rule visit, 8 apply_uniques
    i,             \* fill-uniquely rules: index of the region being processed
    n,             \* fill-uniquely rules: value being processed ('next_n loop)
    changes_made,  \* what the last apply_uniques call returned
    status,        \* "Running" or "Converged" (the loop has hit its break)
    passes,        \* history: how many times apply_uniques has been called
    exclusive      \* history: the cells set_exclusive_candidate was called on

vars == <<given, gameboard, candidates, order, pc, i, n, changes_made, status,
          passes, exclusive>>

(***************************************************************************)
(* Program constants.                                                      *)
(***************************************************************************)
X == 9
Y == 9
AllCandidates == 511
MaxValue == 9
BoxSize == 3

(***************************************************************************)
(* Bounds of the model (not program constants).                            *)
(***************************************************************************)
NumEditCells == 2      \* how many of EditCells an input may overwrite
NumMaskStrides == 2    \* strides 0..NumMaskStrides-1 of the mask patterns
NumOtherOrders == 2    \* how many of OtherOrders the permuted loop may run
MaxPasses == 4         \* the count of passes is kept up to this many

Xs == 0 .. (X - 1)
Ys == 0 .. (Y - 1)
Values == 1 .. MaxValue

(***************************************************************************)
(* Bit arithmetic on u16 masks.                                            *)
(***************************************************************************)
MaskBits == 0 .. 15

\* bit k (0-indexed) of mask m is set
HasBit(m, k) == (m \div (2 ^ k)) % 2 = 1

\* u16::count_ones
CountOnes(m) == Cardinality({k \in MaskBits : HasBit(m, k)})

\* log2 rounded up to the next integer above (the bit length of m)
Log2_BitLength(m) ==
    IF m = 0 THEN 0 ELSE 1 + (CHOOSE k \in MaskBits : 2 ^ k <= m /\ m < 2 ^ (k + 1))

\* (m as f32).log2() as u8 for a u16 m: the position of the highest set bit
\* (exact when m has one bit set); the cast of -inf (m = 0) saturates to 0
Log2(m) ==
    IF m = 0 THEN 0 ELSE CHOOSE k \in MaskBits : 2 ^ k <= m /\ m < 2 ^ (k + 1)

\* ToCellMask::to_cell_mask for a value 1..=9: 1 << (self - 1)
to_cell_mask(v) == 2 ^ (v - 1)

\* m & !mask, for a single-bit mask
AndNot(m, mask) == IF (m \div mask) % 2 = 1 THEN m - mask ELSE m

\* m & mask > 0, for a single-bit mask
Intersects(m, mask) == (m \div mask) % 2 = 1

(***************************************************************************)
(* Gameboard and Candidates operations.  Each method touches the one cell  *)
(* (x, y) it is given; the operators below give the new value of that      *)
(* cell from its old value.                                                *)
(***************************************************************************)
\* self.state[x][y] = value
set_cell(old, value) == value

Default == [x \in Xs |-> [y \in Ys |-> AllCandidates]]

\* exclude_candidate written with ^= instead of &= !: a clear bit is set
exclude_candidate_Toggle(m, candidate) ==
    IF Intersects(m, to_cell_mask(candidate))
    THEN m - to_cell_mask(candidate)
    ELSE m + to_cell_mask(candidate)

\* self.cells[x][y] &= !candidate.to_cell_mask()
exclude_candidate(m, candidate) == AndNot(m, to_cell_mask(candidate))

\* set_exclusive_candidate written with |= instead of =: the other bits stay
set_exclusive_candidate_Or(m, candidate) ==
    IF Intersects(m, to_cell_mask(candidate))
    THEN m
    ELSE m + to_cell_mask(candidate)

\* self.cells[x][y] = candidate.to_cell_mask()
set_exclusive_candidate(m, candidate) == to_cell_mask(candidate)

\* self.cells[x][y].count_ones()
remaining_candidates(m) == CountOnes(m)

\* mark_as_solved that leaves the mask as it is
mark_as_solved_Keep(m) == m

\* self.cells[x][y] = 0
mark_as_solved(m) == 0

\* apply_uniques that reports a change on every call
apply_uniques_AlwaysTrue(c, g) ==
    [gameboard |->
        [x \in Xs |-> [y \in Ys |->
            IF CountOnes(c[x][y]) = 1 THEN Log2(c[x][y]) + 1 ELSE g[x][y]]],
     changes_made |-> TRUE]

\* apply_uniques whose flag is assigned, not or-ed, in the loop: it reports
\* only on the last cell scanned
apply_uniques_LastCell(c, g) ==
    [gameboard |->
        [x \in Xs |-> [y \in Ys |->
            IF CountOnes(c[x][y]) = 1 THEN Log2(c[x][y]) + 1 ELSE g[x][y]]],
     changes_made |-> CountOnes(c[X - 1][Y - 1]) = 1]

\* apply_uniques whose flag is raised by cells with at most one candidate
apply_uniques_FlagOnEmpty(c, g) ==
    [gameboard |->
        [x \in Xs |-> [y \in Ys |->
            IF CountOnes(c[x][y]) = 1 THEN Log2(c[x][y]) + 1 ELSE g[x][y]]],
     changes_made |-> \E x \in Xs, y \in Ys : CountOnes(c[x][y]) <= 1]

\* apply_uniques that tests remaining_candidates <= 1: a cell without
\* candidates is written too
apply_uniques_AtMostOne(c, g) ==
    [gameboard |->
        [x \in Xs |-> [y \in Ys |->
            IF CountOnes(c[x][y]) <= 1 THEN Log2(c[x][y]) + 1 ELSE g[x][y]]],
     changes_made |-> \E x \in Xs, y \in Ys : CountOnes(c[x][y]) <= 1]

\* apply_uniques: the record holds the mutated gameboard and the returned
\* flag.  Every cell is tested and written independently of the others.
apply_uniques(c, g) ==
    [gameboard |->
        [x \in Xs |-> [y \in Ys |->
            IF remaining_candidates(c[x][y]) = 1
            THEN set_cell(g[x][y], Log2(c[x][y]) + 1)
            ELSE g[x][y]]],
     changes_made |->
        \E x \in Xs, y \in Ys : remaining_candidates(c[x][y]) = 1]

(***************************************************************************)
(* Regions, as the sequences of coordinates the rules' inner loops scan.   *)
(***************************************************************************)
\* the cells (x, 0..Y-1): "for y in 0..Y" with x fixed
FixedX(x) == [k \in 1 .. Y |-> <<x, k - 1>>]

\* the cells (0..X-1, y): "for x in 0..X" with y fixed
FixedY(y) == [k \in 1 .. X |-> <<k - 1, y>>]

\* the 3x3 box (x_outer, y_outer), x_inner outermost
Box(x_outer, y_outer) ==
    [k \in 1 .. (BoxSize * BoxSize) |->
        <<x_outer * BoxSize + ((k - 1) \div BoxSize),
          y_outer * BoxSize + ((k - 1) % BoxSize)>>]

InRegion(region, x, y) == \E k \in 1 .. Len(region) : region[k] = <<x, y>>

(***************************************************************************)
(* The rules that read the gameboard.  A cell of a region receives one     *)
(* exclude_candidate for every solved cell of that region, in scan order.  *)
(***************************************************************************)
\* exclude-when-solved with its test inverted: clears the unsolved cells
ExcludeWhenSolved_Inverted(g, c) ==
    [x \in Xs |-> [y \in Ys |-> IF g[x][y] = 0 THEN 0 ELSE c[x][y]]]

\* exclude-when-solved that takes a cell with one candidate left for a
\* solved one and clears it as well
ExcludeWhenSolved_OrSingle(g, c) ==
    [x \in Xs |-> [y \in Ys |->
        IF g[x][y] = 0 /\ CountOnes(c[x][y]) # 1 THEN c[x][y] ELSE 0]]

ExcludeWhenSolved(g, c) ==
    [x \in Xs |-> [y \in Ys |->
        IF g[x][y] = 0 THEN c[x][y] ELSE mark_as_solved(c[x][y])]]

\* mask m after exclude_candidate(.., g[x][y]) for the solved cells (x, y) at
\* positions k.. of region
RECURSIVE exclude_solved(_, _, _, _)
exclude_solved(m, g, region, k) ==
    IF k > Len(region)
    THEN m
    ELSE LET value == g[region[k][1]][region[k][2]]
         IN  exclude_solved(
                 IF value = 0 THEN m ELSE exclude_candidate(m, value),
                 g, region, k + 1)

\* unique-by-row that excludes nothing
UniqueByRow_Skip(g, c) == c

UniqueByRow(g, c) ==
    [x \in Xs |-> [y2 \in Ys |-> exclude_solved(c[x][y2], g, FixedX(x), 1)]]

UniqueByColumn(g, c) ==
    [x2 \in Xs |-> [y \in Ys |-> exclude_solved(c[x2][y], g, FixedY(y), 1)]]

UniqueBy3x3Box(g, c) ==
    [x2 \in Xs |-> [y2 \in Ys |->
        exclude_solved(c[x2][y2], g, Box(x2 \div BoxSize, y2 \div BoxSize), 1)]]

(***************************************************************************)
(* The fill-uniquely rules.  One iteration of the 'next_n loop is          *)
(* fill_value: the scan for solo_position, then the writes.                *)
(***************************************************************************)
\* the positions of region whose mask has the bit of v
Holders(c, region, v) ==
    {k \in 1 .. Len(region) :
        Intersects(c[region[k][1]][region[k][2]], to_cell_mask(v))}

\* solo_position with the test before "continue 'next_n" inverted: the scan
\* is cut short at the first cell that has the bit
solo_position_None(c, region, v) == 0

\* solo_position without the "continue 'next_n": the first cell that has
\* the bit, however many have it
solo_position_First(c, region, v) ==
    IF Holders(c, region, v) = {}
    THEN 0
    ELSE CHOOSE k \in Holders(c, region, v) :
             \A k2 \in Holders(c, region, v) : k <= k2

\* solo_position after the scan: 0 stands for None, and for the scans cut
\* short by "continue 'next_n"
solo_position(c, region, v) ==
    IF Cardinality(Holders(c, region, v)) = 1
    THEN CHOOSE k \in Holders(c, region, v) : TRUE
    ELSE 0

\* the write loop under "if let Some(..) = solo_position"
fill_writes(c, region, solo, v) ==
    [x \in Xs |-> [y \in Ys |->
        IF InRegion(region, x, y)
        THEN IF region[solo] = <<x, y>>
             THEN set_exclusive_candidate(c[x][y], v)
             ELSE exclude_candidate(c[x][y], v)
        ELSE c[x][y]]]

fill_value(c, region, v) ==
    LET solo == solo_position(c, region, v)
    IN  IF solo = 0 THEN c ELSE fill_writes(c, region, solo, v)

\* the region with index r (0..8) of each fill-uniquely rule
FillColumnRegion(r) == FixedX(r)
FillRowRegion(r) == FixedY(r)
Fill3x3BoxRegion(r) == Box(r \div BoxSize, r % BoxSize)

FillRegion(rule, r) ==
    CASE rule = "FillColumnUniquely" -> FillColumnRegion(r)
      [] rule = "FillRowUniquely" -> FillRowRegion(r)
      [] rule = "Fill3x3BoxUniquely" -> Fill3x3BoxRegion(r)

\* the 'next_n loop over one region, values v.. onwards (the comparison has
\* each iteration evaluated before the next one starts)
RECURSIVE fill_region(_, _, _)
fill_region(c, region, v) ==
    IF v > MaxValue
    THEN c
    ELSE LET next == fill_value(c, region, v)
         IN  IF next = c
             THEN fill_region(c, region, v + 1)
             ELSE fill_region(next, region, v + 1)

\* a whole visit of a fill-uniquely rule: regions r.. onwards
RECURSIVE fill_visit(_, _, _)
fill_visit(c, rule, r) ==
    IF r = X
    THEN c
    ELSE LET next == fill_region(c, FillRegion(rule, r), 1)
         IN  IF next = c
             THEN fill_visit(c, rule, r + 1)
             ELSE fill_visit(next, rule, r + 1)

FillColumnUniquely(c) == fill_visit(c, "FillColumnUniquely", 0)
FillRowUniquely(c) == fill_visit(c, "FillRowUniquely", 0)
Fill3x3BoxUniquely(c) == fill_visit(c, "Fill3x3BoxUniquely", 0)

(***************************************************************************)
(* One pass of the loop of main as a function, and the loop to its break.  *)
(***************************************************************************)
GridRules == {"ExcludeWhenSolved", "UniqueByColumn", "UniqueByRow",
              "UniqueBy3x3Box"}
FillRules == {"FillColumnUniquely", "FillRowUniquely", "Fill3x3BoxUniquely"}

\* the order of the visits in main
MainOrder == <<"ExcludeWhenSolved", "UniqueByColumn", "UniqueByRow",
               "UniqueBy3x3Box", "FillColumnUniquely", "FillRowUniquely",
               "Fill3x3BoxUniquely">>

visit(rule, g, c) ==
    CASE rule = "ExcludeWhenSolved" -> ExcludeWhenSolved(g, c)
      [] rule = "UniqueByColumn" -> UniqueByColumn(g, c)
      [] rule = "UniqueByRow" -> UniqueByRow(g, c)
      [] rule = "UniqueBy3x3Box" -> UniqueBy3x3Box(g, c)
      [] rule = "FillColumnUniquely" -> FillColumnUniquely(c)
      [] rule = "FillRowUniquely" -> FillRowUniquely(c)
      [] rule = "Fill3x3BoxUniquely" -> Fill3x3BoxUniquely(c)

\* the visits ord[k..] of one pass
RECURSIVE visits_from(_, _, _, _)
visits_from(ord, g, c, k) ==
    IF k > Len(ord)
    THEN c
    ELSE LET next == visit(ord[k], g, c)
         IN  IF next = c
             THEN visits_from(ord, g, c, k + 1)
             ELSE visits_from(ord, g, next, k + 1)

\* one iteration of the loop: all visits, then apply_uniques
full_pass(ord, g, c) ==
    LET c2 == visits_from(ord, g, c, 1)
        r == apply_uniques(c2, g)
    IN  [gameboard |-> r.gameboard, candidates |-> c2,
         changes_made |-> r.changes_made]

\* the loop run until its break
RECURSIVE main_loop(_, _, _)
main_loop(ord, g, c) ==
    LET p == full_pass(ord, g, c)
    IN  IF p.changes_made
        THEN main_loop(ord, p.gameboard, p.candidates)
        ELSE [gameboard |-> p.gameboard, candidates |-> p.candidates]

(***************************************************************************)
(* Inputs.  The literal of main, the all-zero grid and a complete valid    *)
(* grid, each with one cell overwritten by a value 0..9.                   *)
(***************************************************************************)
Grid(rows) == [x \in Xs |-> [y \in Ys |-> rows[x + 1][y + 1]]]

Canonical ==
    Grid(<< <<0, 0, 0, 0, 8, 0, 0, 0, 0>>,
            <<0, 0, 5, 6, 0, 3, 9, 0, 0>>,
            <<0, 8, 4, 0, 0, 0, 2, 7, 0>>,
            <<0, 3, 0, 1, 0, 0, 0, 5, 0>>,
            <<5, 0, 0, 0, 3, 0, 0, 0, 2>>,
            <<0, 6, 0, 0, 0, 5, 0, 1, 0>>,
            <<0, 1, 9, 0, 0, 0, 5, 6, 0>>,
            <<0, 0, 8, 4, 0, 2, 7, 0, 0>>,
            <<0, 0, 0, 0, 6, 0, 0, 0, 0>> >>)

\* the one complete valid grid that extends Canonical
Solution ==
    Grid(<< <<1, 9, 6, 2, 8, 7, 3, 4, 5>>,
            <<7, 2, 5, 6, 4, 3, 9, 8, 1>>,
            <<3, 8, 4, 9, 5, 1, 2, 7, 6>>,
            <<8, 3, 2, 1, 9, 4, 6, 5, 7>>,
            <<5, 4, 1, 7, 3, 6, 8, 9, 2>>,
            <<9, 6, 7, 8, 2, 5, 4, 1, 3>>,
            <<2, 1, 9, 3, 7, 8, 5, 6, 4>>,
            <<6, 5, 8, 4, 1, 2, 7, 3, 9>>,
            <<4, 7, 3, 5, 6, 9, 1, 2, 8>> >>)

AllZero == [x \in Xs |-> [y \in Ys |-> 0]]

Bases == {Canonical, Solution, AllZero}

\* the cells an input may overwrite; the first NumEditCells are used
EditCells == << <<0, 0>>, <<4, 4>>, <<7, 7>>, <<2, 0>>, <<8, 8>> >>

Inputs ==
    {[b EXCEPT ![EditCells[e][1]][EditCells[e][2]] = v] :
        b \in Bases, e \in 1 .. NumEditCells, v \in 0 .. MaxValue}

(***************************************************************************)
(* The loop of main as a state machine.                                    *)
(***************************************************************************)
ApplyPc == Len(MainOrder) + 1

Start(g, c, ord, p) ==
    /\ given = g
    /\ gameboard = g
    /\ candidates = c
    /\ order = ord
    /\ pc = p
    /\ i = 0
    /\ n = 1
    /\ changes_made = FALSE
    /\ status = "Running"
    /\ passes = 0
    /\ exclusive = {}

Init == \E g \in Inputs : Start(g, Default, MainOrder, 1)

AtRule(rule) == status = "Running" /\ pc < ApplyPc /\ order[pc] = rule

\* the end of a visit that is one step of the model
VisitDone ==
    /\ pc' = pc + 1
    /\ UNCHANGED <<given, gameboard, order, i, n, changes_made, status,
                   passes, exclusive>>

\* the cell one iteration of the 'next_n loop calls set_exclusive_candidate
\* on, if any
set_exclusive_cells(c, region, v) ==
    IF solo_position(c, region, v) = 0
    THEN {}
    ELSE {region[solo_position(c, region, v)]}

\* the end of one iteration of the 'next_n loop of a fill-uniquely rule
NextValue ==
    /\ IF n < MaxValue
       THEN n' = n + 1 /\ UNCHANGED <<i, pc>>
       ELSE /\ n' = 1
            /\ IF i < X - 1
               THEN i' = i + 1 /\ UNCHANGED pc
               ELSE i' = 0 /\ pc' = pc + 1
    /\ UNCHANGED <<given, gameboard, order, changes_made, status, passes>>

ExcludeWhenSolved_visit ==
    /\ AtRule("ExcludeWhenSolved")
    /\ candidates' = ExcludeWhenSolved(gameboard, candidates)
    /\ VisitDone

UniqueByColumn_visit ==
    /\ AtRule("UniqueByColumn")
    /\ candidates' = UniqueByColumn(gameboard, candidates)
    /\ VisitDone

UniqueByRow_visit ==
    /\ AtRule("UniqueByRow")
    /\ candidates' = UniqueByRow(gameboard, candidates)
    /\ VisitDone

UniqueBy3x3Box_visit ==
    /\ AtRule("UniqueBy3x3Box")
    /\ candidates' = UniqueBy3x3Box(gameboard, candidates)
    /\ VisitDone

FillColumnUniquely_visit ==
    /\ AtRule("FillColumnUniquely")
    /\ candidates' = fill_value(candidates, FillColumnRegion(i), n)
    /\ exclusive' =
          exclusive \cup set_exclusive_cells(candidates, FillColumnRegion(i), n)
    /\ NextValue

FillRowUniquely_visit ==
    /\ AtRule("FillRowUniquely")
    /\ candidates' = fill_value(candidates, FillRowRegion(i), n)
    /\ exclusive' =
          exclusive \cup set_exclusive_cells(candidates, FillRowRegion(i), n)
    /\ NextValue

Fill3x3BoxUniquely_visit ==
    /\ AtRule("Fill3x3BoxUniquely")
    /\ candidates' = fill_value(candidates, Fill3x3BoxRegion(i), n)
    /\ exclusive' =
          exclusive \cup set_exclusive_cells(candidates, Fill3x3BoxRegion(i), n)
    /\ NextValue

\* "if !candidates.apply_uniques(&mut gameboard) { break; }"
ApplyUniques ==
    /\ status = "Running"
    /\ pc = ApplyPc
    /\ LET r == apply_uniques(candidates, gameboard)
       IN  /\ gameboard' = r.gameboard
           /\ changes_made' = r.changes_made
           /\ IF r.changes_made
              THEN pc' = 1 /\ UNCHANGED status
              ELSE status' = "Converged" /\ UNCHANGED pc
    /\ passes' = IF passes < MaxPasses THEN passes + 1 ELSE passes
    /\ UNCHANGED <<given, candidates, order, i, n, exclusive>>

Next ==
    \/ ExcludeWhenSolved_visit
    \/ UniqueByColumn_visit
    \/ UniqueByRow_visit
    \/ UniqueBy3x3Box_visit
    \/ FillColumnUniquely_visit
    \/ FillRowUniquely_visit
    \/ Fill3x3BoxUniquely_visit
    \/ ApplyUniques

Spec == Init /\ [][Next]_vars

\* main is one sequential thread: a step that can be taken is taken
FairSpec == Spec /\ WF_vars(Next)

Converged == status = "Converged"

(***************************************************************************)
(* The loop started on an arbitrary candidate set, at any position of the  *)
(* pass: the rules and apply_uniques as functions of what they are given.  *)
(***************************************************************************)
\* masks laid out over the board by MaskPattern
MaskList == <<0, 1, 256, 3, 511, 16, 260, 512>>

MaskPattern(a, b, s) ==
    [x \in Xs |-> [y \in Ys |->
        MaskList[((a * x + b * y + s) % Len(MaskList)) + 1]]]

FnGrids == {Canonical, AllZero}

InitFn ==
    \E g \in FnGrids, a \in 0 .. (NumMaskStrides - 1),
       b \in 0 .. (NumMaskStrides - 1), s \in 0 .. (Len(MaskList) - 1),
       p \in 1 .. ApplyPc :
        Start(g, MaskPattern(a, b, s), MainOrder, p)

SpecFn == InitFn /\ [][Next]_vars

(***************************************************************************)
(* apply_uniques called on a candidate set in which every cell with a      *)
(* value in the grid has the one bit of that value, and the loop of main   *)
(* from there.                                                             *)
(***************************************************************************)
\* the candidate set with the mask of every non-zero cell of g collapsed to
\* the bit of its value (values 1..9), every other mask untouched
Collapsed(g) ==
    [x \in Xs |-> [y \in Ys |->
        IF g[x][y] \in Values THEN to_cell_mask(g[x][y]) ELSE AllCandidates]]

InitCall == \E g \in Inputs : Start(g, Collapsed(g), MainOrder, ApplyPc)

SpecCall == InitCall /\ [][Next]_vars

(***************************************************************************)
(* The loop with the visits of a pass in another order.                    *)
(***************************************************************************)
\* the four rules that read the gameboard in any order, then the three
\* fill-uniquely rules in the order of main
GridOrders ==
    {o \o SubSeq(MainOrder, 5, 7) :
        o \in {q \in [1 .. 4 -> GridRules] :
                  \A a, b \in 1 .. 4 : a # b => q[a] # q[b]}}

\* orders that move a fill-uniquely rule; the first NumOtherOrders are used
OtherOrders ==
    << <<"ExcludeWhenSolved", "UniqueByColumn", "UniqueByRow",
         "FillColumnUniquely", "FillRowUniquely", "Fill3x3BoxUniquely",
         "UniqueBy3x3Box">>,
       <<"FillColumnUniquely", "FillRowUniquely", "Fill3x3BoxUniquely",
         "ExcludeWhenSolved", "UniqueByColumn", "UniqueByRow",
         "UniqueBy3x3Box">>,
       <<"ExcludeWhenSolved", "UniqueByColumn", "UniqueByRow",
         "UniqueBy3x3Box", "Fill3x3BoxUniquely", "FillRowUniquely",
         "FillColumnUniquely">>,
       <<"UniqueByColumn", "FillRowUniquely", "ExcludeWhenSolved",
         "UniqueByRow", "FillColumnUniquely", "UniqueBy3x3Box",
         "Fill3x3BoxUniquely">> >>

Orders == GridOrders \cup {OtherOrders[k] : k \in 1 .. NumOtherOrders}

OrderInputs ==
    {[Canonical EXCEPT ![EditCells[e][1]][EditCells[e][2]] = v] :
        e \in 1 .. NumEditCells, v \in {0, 1, 3}}

InitOrder == \E g \in OrderInputs, o \in Orders : Start(g, Default, o, 1)

SpecOrder == InitOrder /\ [][Next]_vars

(***************************************************************************)
(* Vocabulary of the properties.                                           *)
(***************************************************************************)
\* every bit of mask a is a bit of mask b
SubMask(a, b) == \A k \in MaskBits : HasBit(a, k) => HasBit(b, k)

\* the rows, columns and 3x3 boxes of the board
AllRegions ==
    {FixedX(r) : r \in Xs} \cup {FixedY(r) : r \in Ys}
        \cup {Fill3x3BoxRegion(r) : r \in 0 .. (BoxSize * BoxSize - 1)}

\* no two non-zero cells of one region of g hold the same value
NoDuplicates(g) ==
    \A region \in AllRegions : \A a, b \in 1 .. Len(region) :
        (a # b /\ g[region[a][1]][region[a][2]] # 0)
            => g[region[a][1]][region[a][2]] # g[region[b][1]][region[b][2]]

\* g with the digits a and b exchanged
Relabel(g, a, b) ==
    [x \in Xs |-> [y \in Ys |->
        IF g[x][y] = a THEN b ELSE IF g[x][y] = b THEN a ELSE g[x][y]]]

\* complete valid grids: Solution and its relabellings
Solutions == {Relabel(Solution, a, b) : a, b \in Values}

\* g is not contradictory: one of Solutions extends it
Solvable(g) ==
    \E sol \in Solutions : \A x \in Xs, y \in Ys : g[x][y] \in {0, sol[x][y]}

\* cell (x, y) was blank in the input and has been written by apply_uniques
Written(x, y) == given[x][y] = 0 /\ gameboard[x][y] # 0

\* the loop is about to call apply_uniques
AtApply == status = "Running" /\ pc = ApplyPc

\* exclude-when-solved has run in the current pass
ExcludeHasRun ==
    status = "Running" /\ \E k \in 1 .. (pc - 1) : order[k] = "ExcludeWhenSolved"

\* exclude-when-solved was the last visit made
JustAfterExclude ==
    /\ status = "Running"
    /\ pc > 1
    /\ order[pc - 1] = "ExcludeWhenSolved"
    /\ i = 0
    /\ n = 1

\* what the loop of main, in its own order, reaches from the input
SameAsMain ==
    LET r == main_loop(MainOrder, given, Default)
    IN  gameboard = r.gameboard /\ candidates = r.candidates

(***************************************************************************)
(* C1.  Termination: from every input grid the loop reaches Converged, a   *)
(* pass whose apply_uniques returns false.  Checked under FairSpec.        *)
(***************************************************************************)
C1_Termination == <>Converged

\* the loop has stopped after writing cells, with blanks left
C1_Witness ==
    /\ Converged
    /\ \E x \in Xs, y \in Ys : Written(x, y)
    /\ \E x \in Xs, y \in Ys : gameboard[x][y] = 0

(***************************************************************************)
(* C2.  Grid monotonicity: a non-zero cell keeps its value in every step,  *)
(* and every value written is in 1..9.                                     *)
(***************************************************************************)
C2_GridMonotone ==
    [][\A x \in Xs, y \in Ys :
          /\ gameboard[x][y] # 0 => gameboard'[x][y] = gameboard[x][y]
          /\ gameboard'[x][y] # gameboard[x][y] => gameboard'[x][y] \in Values
      ]_vars

\* a cell written in an earlier pass, and a given, face another apply_uniques
C2_Witness ==
    /\ AtApply
    /\ \E x \in Xs, y \in Ys : Written(x, y)
    /\ \E x \in Xs, y \in Ys : given[x][y] # 0

(***************************************************************************)
(* C3.  Region integrity: for an input that is not contradictory, in the   *)
(* Converged state no row, column or box holds a non-zero value twice.     *)
(***************************************************************************)
C3_RegionIntegrity == (Converged /\ Solvable(given)) => NoDuplicates(gameboard)

\* a solvable input has converged with cells written by the loop
C3_Witness ==
    /\ Converged
    /\ Solvable(given)
    /\ Cardinality({<<x, y>> \in Xs \X Ys : Written(x, y)}) >= 2

(***************************************************************************)
(* C4.  Candidate monotonicity: in every step (each grid rule, each        *)
(* iteration of a fill-uniquely rule, apply_uniques) every mask after the  *)
(* step is a subset of the mask before; so set_exclusive_candidate is only *)
(* applied to a cell that has the bit it sets.                             *)
(***************************************************************************)
C4_CandidatesMonotone ==
    [][\A x \in Xs, y \in Ys : SubMask(candidates'[x][y], candidates[x][y])]_vars

\* a fill-uniquely rule has narrowed a blank cell to one bit although the
\* solved cells of its regions leave it at least two candidates
C4_Witness ==
    /\ status = "Running"
    /\ pc < ApplyPc
    /\ order[pc] \in FillRules
    /\ \E x \in Xs, y \in Ys :
          /\ gameboard[x][y] = 0
          /\ CountOnes(candidates[x][y]) = 1
          /\ CountOnes(UniqueBy3x3Box(gameboard,
                 UniqueByRow(gameboard,
                     UniqueByColumn(gameboard, Default)))[x][y]) >= 2

(***************************************************************************)
(* C5.  Consistency with the grid: from the moment exclude-when-solved has *)
(* run in a pass until apply_uniques is called, and in the Converged       *)
(* state, every non-zero cell has no remaining candidate.                  *)
(***************************************************************************)
C5_ConsistentWithGrid ==
    (ExcludeHasRun \/ Converged) =>
        \A x \in Xs, y \in Ys :
            gameboard[x][y] # 0 => remaining_candidates(candidates[x][y]) = 0

\* a fill-uniquely rule is running in a pass that follows a write
C5_Witness ==
    /\ ExcludeHasRun
    /\ pc < ApplyPc
    /\ order[pc] \in FillRules
    /\ i > 0
    /\ \E x \in Xs, y \in Ys : Written(x, y)

(***************************************************************************)
(* C6.  As claimed: right after exclude-when-solved every cell with a      *)
(* fixed value v has the mask with exactly the bit of v.                   *)
(***************************************************************************)
C6_Original ==
    JustAfterExclude =>
        \A x \in Xs, y \in Ys :
            gameboard[x][y] # 0
                => candidates[x][y] = to_cell_mask(gameboard[x][y])

(***************************************************************************)
(* C6, amended.  Right after exclude-when-solved every cell with a fixed   *)
(* value has the empty mask 0: the bit of its own value is cleared too.    *)
(***************************************************************************)
C6_MaskCleared ==
    JustAfterExclude =>
        \A x \in Xs, y \in Ys : gameboard[x][y] # 0 => candidates[x][y] = 0

\* exclude-when-solved has just cleared a cell that the loop wrote with one
\* bit set
C6_Witness ==
    /\ JustAfterExclude
    /\ \E x \in Xs, y \in Ys : Written(x, y) /\ candidates[x][y] = 0

(***************************************************************************)
(* C7.  Resolution correctness of apply_uniques, for any candidate set and *)
(* grid: a cell whose mask is the single bit k gets the value k+1, every   *)
(* other cell keeps its value, the candidate set is unchanged.  Checked    *)
(* under SpecFn.                                                           *)
(***************************************************************************)
C7_ApplyResolves ==
    [][AtApply =>
          /\ candidates' = candidates
          /\ \A x \in Xs, y \in Ys :
                /\ \A k \in MaskBits :
                      candidates[x][y] = 2 ^ k => gameboard'[x][y] = k + 1
                /\ (\A k \in MaskBits : candidates[x][y] # 2 ^ k)
                      => gameboard'[x][y] = gameboard[x][y]
      ]_vars

\* apply_uniques has overwritten a given with the value of a one-bit mask,
\* and left alone a cell with several bits
C7_Witness ==
    /\ changes_made
    /\ pc = 1
    /\ \E x \in Xs, y \in Ys :
          /\ given[x][y] # 0
          /\ gameboard[x][y] # given[x][y]
          /\ candidates[x][y] = 2 ^ (gameboard[x][y] - 1)
    /\ \E x \in Xs, y \in Ys :
          CountOnes(candidates[x][y]) >= 2 /\ gameboard[x][y] = given[x][y]

(***************************************************************************)
(* C8.  Stability of the fixed point: from a Converged state one more full *)
(* pass changes no grid cell and no mask, and apply_uniques returns false. *)
(***************************************************************************)
C8_FixedPointStable ==
    Converged =>
        LET p == full_pass(order, gameboard, candidates)
        IN  /\ p.gameboard = gameboard
            /\ p.candidates = candidates
            /\ p.changes_made = FALSE

\* a Converged state with written cells and with undecided cells
C8_Witness ==
    /\ Converged
    /\ changes_made = FALSE
    /\ \E x \in Xs, y \in Ys : Written(x, y)
    /\ \E x \in Xs, y \in Ys : CountOnes(candidates[x][y]) >= 2

(***************************************************************************)
(* C9.  As claimed: with the rules of a pass in any order, the loop        *)
(* reaches the final grid and masks of the order of main.  Checked under   *)
(* SpecOrder.                                                              *)
(***************************************************************************)
C9_Original == Converged => SameAsMain

(***************************************************************************)
(* C9, amended.  With exclude-when-solved and the three unique-by-region   *)
(* rules in any order among themselves, followed by the fill-uniquely      *)
(* rules in the order of main, the loop reaches the final grid and masks   *)
(* of the order of main.  Checked under SpecOrder.                         *)
(***************************************************************************)
C9_GridRulesCommute == (Converged /\ order \in GridOrders) => SameAsMain

\* the loop has converged, after writing cells, in an order that is not
\* main's but keeps the fill-uniquely rules last
C9_Witness ==
    /\ Converged
    /\ order \in GridOrders
    /\ order[1] # "ExcludeWhenSolved"
    /\ \E x \in Xs, y \in Ys : Written(x, y)

(***************************************************************************)
(* C10.  For every grid and candidate set it is called with, apply_uniques *)
(* returns true exactly when the call changed the value of a grid cell,    *)
(* and false exactly when the grid is the same before and after.  Checked  *)
(* under SpecCall.                                                         *)
(***************************************************************************)
C10_ReportsChange ==
    [][AtApply => (changes_made' <=> gameboard' # gameboard)]_vars

(***************************************************************************)
(* Vocabulary of the scenarios.                                            *)
(***************************************************************************)
\* how many cells of g are non-zero
NonZero(g) == Cardinality({<<x, y>> \in Xs \X Ys : g[x][y] # 0})

\* every given is still in place
GivensKept ==
    \A x \in Xs, y \in Ys : given[x][y] # 0 => gameboard[x][y] = given[x][y]

(***************************************************************************)
(* C11.  Started on the puzzle hard-coded in main, the loop converges to a *)
(* grid with strictly more non-zero cells than the input, with every given *)
(* unchanged, and with no value twice in a row, column or 3x3 box.         *)
(* Checked under FairSpec.                                                 *)
(***************************************************************************)
C11_CanonicalScenario ==
    (given = Canonical) ~>
        (/\ Converged
         /\ NonZero(gameboard) > NonZero(given)
         /\ GivensKept
         /\ NoDuplicates(gameboard))

\* the run of the literal of main has stopped, with cells written and with
\* blanks left
C11_Witness ==
    /\ Converged
    /\ given = Canonical
    /\ \E x \in Xs, y \in Ys : Written(x, y)
    /\ \E x \in Xs, y \in Ys : gameboard[x][y] = 0

(***************************************************************************)
(* C12.  Started on the all-zero grid with the default candidate set, the  *)
(* loop converges after its first pass, the grid is still all 0 and every  *)
(* mask is still 511.  Checked under FairSpec.                             *)
(***************************************************************************)
C12_AllZeroScenario ==
    (given = AllZero) ~>
        (/\ Converged
         /\ passes = 1
         /\ gameboard = AllZero
         /\ \A x \in Xs, y \in Ys : candidates[x][y] = AllCandidates)

\* the run of the all-zero grid has stopped at its first apply_uniques call
C12_Witness ==
    /\ Converged
    /\ given = AllZero
    /\ passes = 1
    /\ changes_made = FALSE

(***************************************************************************)
(* C13.  Started on a grid with every cell non-zero and no value twice in  *)
(* any region, the loop converges in exactly one pass, the grid is the     *)
(* input and every mask is 0.  Checked under FairSpec.                     *)
(***************************************************************************)
C13_SolvedScenario ==
    (NonZero(given) = X * Y /\ NoDuplicates(given)) ~>
        (/\ Converged
         /\ passes = 1
         /\ gameboard = given
         /\ \A x \in Xs, y \in Ys : candidates[x][y] = 0)

\* the run of a complete valid grid has stopped at its first apply_uniques
\* call
C13_Witness ==
    /\ Converged
    /\ NonZero(given) = X * Y
    /\ NoDuplicates(given)
    /\ passes = 1
    /\ gameboard = given

(***************************************************************************)
(* C14.  As claimed: once a rule has called set_exclusive_candidate on a   *)
(* cell, the cell has exactly one candidate in every later state.          *)
(***************************************************************************)
C14_Original ==
    \A cell \in exclusive : CountOnes(candidates[cell[1]][cell[2]]) = 1

(***************************************************************************)
(* C14, amended.  Once a rule has called set_exclusive_candidate on a      *)
(* cell, the cell never has more than one candidate again: it keeps the    *)
(* one bit while its grid value is 0, that bit is the value apply_uniques  *)
(* writes, and from the exclude-when-solved of the next pass on its mask   *)
(* is 0.                                                                   *)
(***************************************************************************)
C14_ExclusiveThenCleared ==
    \A cell \in exclusive :
        LET m == candidates[cell[1]][cell[2]]
            value == gameboard[cell[1]][cell[2]]
        IN  /\ CountOnes(m) <= 1
            /\ value = 0 => CountOnes(m) = 1
            /\ value # 0 => m \in {0, to_cell_mask(value)}
            /\ (value # 0 /\ (ExcludeHasRun \/ Converged)) => m = 0

\* in a later pass a fill-uniquely rule has narrowed a blank cell to one
\* bit, and a cell narrowed in an earlier pass is written and cleared
C14_Witness ==
    /\ status = "Running"
    /\ \E cell \in exclusive :
          /\ gameboard[cell[1]][cell[2]] = 0
          /\ CountOnes(candidates[cell[1]][cell[2]]) = 1
    /\ \E cell \in exclusive :
          /\ Written(cell[1], cell[2])
          /\ candidates[cell[1]][cell[2]] = 0

\* how many cells of g are blank
Blanks(g) == X * Y - NonZero(g)

(***************************************************************************)
(* C15.  Progress measure: every apply_uniques call of the loop that       *)
(* returns true turns a blank cell non-zero, and no call writes a cell     *)
(* that is already non-zero; so the loop makes at most as many passes as   *)
(* the input has blank cells, plus one, which is at most X*Y*9.            *)
(***************************************************************************)
C15_Progress ==
    /\ [][(AtApply /\ changes_made') =>
             \E x \in Xs, y \in Ys : gameboard[x][y] = 0 /\ gameboard'[x][y] # 0
         ]_vars
    /\ [](AtApply =>
             \A x \in Xs, y \in Ys :
                 remaining_candidates(candidates[x][y]) = 1 => gameboard[x][y] = 0)
    /\ [](/\ passes <= Blanks(given) + 1
          /\ Blanks(given) + 1 <= X * Y * MaxValue)

\* a run that needed every pass the measure allows: one pass per blank cell
\* of the input, and the pass that finds nothing to write
C15_Witness ==
    /\ Converged
    /\ Blanks(given) >= 1
    /\ passes = Blanks(given) + 1

\* the complete valid grid sol extends g
Extends(sol, g) == \A x \in Xs, y \in Ys : g[x][y] \in {0, sol[x][y]}

(***************************************************************************)
(* C16.  Soundness of deduction: if a complete valid grid S extends the    *)
(* input, then in every state each cell either holds the value of S, or is *)
(* 0 and still has the bit of the value of S in its mask.  So an unsolved  *)
(* cell never has mask 0 and every value written agrees with S.            *)
(***************************************************************************)
C16_Sound ==
    \A sol \in Solutions :
        Extends(sol, given) =>
            \A x \in Xs, y \in Ys :
                \/ gameboard[x][y] = sol[x][y]
                \/ /\ gameboard[x][y] = 0
                   /\ Intersects(candidates[x][y], to_cell_mask(sol[x][y]))

\* on the puzzle of main, late in the run: cells have been written, a
\* fill-uniquely rule has left a blank cell its one candidate, and other
\* blank cells still have several
C16_Witness ==
    /\ AtApply
    /\ Extends(Solution, given)
    /\ NonZero(given) < X * Y - 1
    /\ Cardinality({<<x, y>> \in Xs \X Ys : Written(x, y)}) >= 2
    /\ \E cell \in exclusive :
          /\ gameboard[cell[1]][cell[2]] = 0
          /\ candidates[cell[1]][cell[2]] =
                 to_cell_mask(Solution[cell[1]][cell[2]])
    /\ \E x \in Xs, y \in Ys : CountOnes(candidates[x][y]) >= 2

\* the cells of region that apply_uniques is about to write with value v
Pending(region, v) ==
    {k \in 1 .. Len(region) :
        candidates[region[k][1]][region[k][2]] = to_cell_mask(v)}

(***************************************************************************)
(* C17.  As claimed: for every input whose givens repeat no value in a     *)
(* row, column or 3x3 box, solvable or not, no state of the loop has a     *)
(* grid with a value twice in a region.                                    *)
(***************************************************************************)
C17_Original == NoDuplicates(given) => NoDuplicates(gameboard)

(***************************************************************************)
(* C17, amended.  For every input that a complete valid grid extends, no   *)
(* state of the loop has a grid with a value twice in a row, column or 3x3 *)
(* box, and no apply_uniques call is about to write one value into two     *)
(* cells of a region.                                                      *)
(***************************************************************************)
C17_NoDuplicatesWhenSolvable ==
    Solvable(given) =>
        /\ NoDuplicates(gameboard)
        /\ AtApply =>
              \A region \in AllRegions, v \in Values :
                  Cardinality(Pending(region, v)) <= 1

\* on a solvable input, one apply_uniques call is about to write two cells
\* of the same region (with different values), in a pass after the first
C17_Witness ==
    /\ AtApply
    /\ Solvable(given)
    /\ \E x \in Xs, y \in Ys : Written(x, y)
    /\ \E region \in AllRegions, v, w \in Values :
          /\ v # w
          /\ Pending(region, v) # {}
          /\ Pending(region, w) # {}

\* a fill-uniquely rule is about to process value n in its region i
AtFill == status = "Running" /\ pc < ApplyPc /\ order[pc] \in FillRules

\* the cells of region whose mask in c has the bit of value v
CellsWithBit(c, region, v) ==
    {<<x, y>> \in Xs \X Ys :
        InRegion(region, x, y) /\ HasBit(c[x][y], v - 1)}

(***************************************************************************)
(* C18.  Hidden-single rule, for any candidate set: a fill-uniquely rule   *)
(* processing value n in a region looks at the masks as they are then; if  *)
(* exactly one cell of the region has the bit of n, its mask becomes that  *)
(* bit alone and no other cell of the region has the bit afterwards; if    *)
(* no cell or several cells have it, no mask changes; cells outside the    *)
(* region and the grid never change; the values of a region are taken in   *)
(* ascending order.  Checked under SpecFn.                                 *)
(***************************************************************************)
C18_HiddenSingle ==
    [][AtFill =>
          LET region == FillRegion(order[pc], i)
              holders == CellsWithBit(candidates, region, n)
          IN  /\ gameboard' = gameboard
              /\ \A x \in Xs, y \in Ys :
                    ~InRegion(region, x, y) => candidates'[x][y] = candidates[x][y]
              /\ Cardinality(holders) = 1 =>
                    /\ \A cell \in holders :
                          candidates'[cell[1]][cell[2]] = 2 ^ (n - 1)
                    /\ CellsWithBit(candidates', region, n) = holders
              /\ Cardinality(holders) # 1 => candidates' = candidates
              /\ n < MaxValue => (n' = n + 1 /\ i' = i /\ pc' = pc)
      ]_vars

\* a fill-uniquely rule has narrowed a cell of a candidate set that is not
\* the default one, and is still at work
C18_Witness ==
    /\ AtFill
    /\ n > 1
    /\ \E x \in Xs, y \in Ys : HasBit(candidates[x][y], MaxValue)
    /\ \E cell \in exclusive :
          /\ gameboard[cell[1]][cell[2]] = 0
          /\ InRegion(FillRegion(order[pc], i), cell[1], cell[2])
          /\ CountOnes(candidates[cell[1]][cell[2]]) = 1

\* the loop is about to start the visit of a rule
AtVisitStart == status = "Running" /\ pc < ApplyPc /\ i = 0 /\ n = 1

\* applying rule twice in a row to c, with the grid g, gives what applying it
\* once gives
Idempotent(rule, g, c) == visit(rule, g, visit(rule, g, c)) = visit(rule, g, c)

(***************************************************************************)
(* C19.  As claimed: for each of the seven rules, any grid and any         *)
(* candidate set, a second visit right after the first leaves every mask   *)
(* as the first visit left it.                                             *)
(***************************************************************************)
C19_Original == AtVisitStart => Idempotent(order[pc], gameboard, candidates)

\* a second visit of rule right after the first clears bits at most
Narrows(rule, g, c) ==
    LET once == visit(rule, g, c)
        twice == visit(rule, g, once)
    IN  \A x \in Xs, y \in Ys : SubMask(twice[x][y], once[x][y])

(***************************************************************************)
(* C19, amended.  For exclude-when-solved and the three unique-by-region   *)
(* rules, a second visit right after the first leaves every mask as the    *)
(* first visit left it; for the three fill-uniquely rules a second visit   *)
(* can clear further bits and never sets one.                              *)
(***************************************************************************)
C19_GridRulesIdempotent ==
    AtVisitStart =>
        /\ \A rule \in GridRules : Idempotent(rule, gameboard, candidates)
        /\ \A rule \in FillRules : Narrows(rule, gameboard, candidates)

\* in a pass after the first, the rule about to run reads the gameboard and
\* will clear bits, and a fill-uniquely rule applied twice to the masks of
\* this state would clear more the second time
C19_Witness ==
    /\ AtVisitStart
    /\ order[pc] \in GridRules
    /\ visit(order[pc], gameboard, candidates) # candidates
    /\ \E x \in Xs, y \in Ys : Written(x, y)
    /\ \E rule \in FillRules : ~Idempotent(rule, gameboard, candidates)

\* cell (x, y) is a dead end: no value in the grid and no candidate left
DeadEnd(x, y) == gameboard[x][y] = 0 /\ candidates[x][y] = 0

(***************************************************************************)
(* C20.  Shape of the Converged state: no cell has exactly one candidate   *)
(* left; in no row, column or 3x3 box is there a value 1..9 whose bit is   *)
(* set in exactly one cell; a cell with mask 0 and grid value 0 changes    *)
(* nothing of this: the loop has stopped as it does on any other input,    *)
(* its last apply_uniques call having returned false.                      *)
(***************************************************************************)
C20_ConvergedShape ==
    Converged =>
        /\ \A x \in Xs, y \in Ys : remaining_candidates(candidates[x][y]) # 1
        /\ \A region \in AllRegions, v \in Values :
              Cardinality(CellsWithBit(candidates, region, v)) # 1
        /\ changes_made = FALSE
        /\ pc = ApplyPc

\* the loop has stopped, after writing cells, on a grid with a dead end
C20_Witness ==
    /\ Converged
    /\ \E x \in Xs, y \in Ys : DeadEnd(x, y)
    /\ \E x \in Xs, y \in Ys : Written(x, y)

====
